---- MODULE Spec2Model ----
(***************************************************************************)
(* A model of mysteriouspants_throttle (src/src/lib.rs): the Throttle      *)
(* struct, its two constructors and acquire.                               *)
(*                                                                         *)
(* Time is counted in milliseconds.  An Instant is the number of           *)
(* milliseconds since the model's start, a Duration a number of            *)
(* milliseconds.  acquire is modelled step by step (pc), and the clock     *)
(* may advance between any two steps.                                      *)
(***************************************************************************)
EXTENDS Integers, FiniteSets, Sequences, TLC

\* ------------------------------------------------------------------ bounds
\* The clock advances in steps of Quantum milliseconds, up to MaxTime.
Quantum == 100
MaxTime == 1200
\* acquire is called at most MaxCallsFixed times in one run on a throttle built
\* by new_tps_throttle (tests::it_works calls it 11 times) and at most
\* MaxCallsVariable times on one built by new_variable_throttle
\* (tests::it_works_more_complicated calls it 5 times).
MaxCallsFixed == 11
MaxCallsVariable == 5
\* An arbitrary delay closure returns 0..MaxDelayQuanta quanta.
MaxDelayQuanta == 2

\* --------------------------------------------------------------- constants
\* The largest u64, the value a saturating `as u64` gives for +inf.  The
\* checker's integers are 32 bits wide, so the model takes the largest value
\* they hold: what matters is that it exceeds every time the clock reaches.
U64_MAX == 2147483647

VARIABLES
    now,                          \* the monotonic clock, Instant::now()
    delay_calculator,             \* Throttle.delay_calculator
    state,                        \* Throttle.state
    pc,                           \* where the (single) caller is inside acquire
    arg,                          \* acquire's argument
    previous_invocation,          \* bound by the match on self.state
    time_since_previous_acquire,  \* local of acquire
    delay_time,                   \* local of acquire
    additional_delay_required,    \* local of acquire
    sleep_start,                  \* the instant sleep() was entered
    built_by,                     \* history: the constructor call
    calls,                        \* history: number of acquire calls begun
    first_call_start,             \* history: the instant the first acquire began
    sleep_end,                    \* history: the instant sleep() returned
    slept,                        \* history: this acquire called sleep()
    sum_targets,                  \* history: sum of the delay_time of returned calls
    invoked,                      \* history: closure calls made by this acquire
    free_calls,                   \* history: acquires that took the Uninitialized branch
    stored_at,                    \* history: the instant of the last store
    earlier_stored_at,            \* history: stored_at when this acquire began
    threads,                      \* the caller's threads that share the throttle
    holder,                       \* the thread inside acquire, holding the caller's mutex
    last_holder                   \* history: the thread whose acquire returned last

vars == <<now, delay_calculator, state, pc, arg, previous_invocation,
          time_since_previous_acquire, delay_time, additional_delay_required,
          sleep_start, built_by, calls, first_call_start, sleep_end,
          slept, sum_targets, invoked, free_calls, stored_at,
          earlier_stored_at, threads, holder, last_holder>>

\* A value for locals that hold nothing yet.
NONE == -1

\* ---------------------------------------------------------------- Duration
\* Duration::from_millis and Duration::from_secs, in the model's unit.
DurationFromMillis(ms) == ms
DurationFromSecs(s) == s * 1000

\* impl Sub for Duration panics when the result would be negative.
DurationSubPanics(a, b) == a < b

\* Mutant: the whole delay instead of what is left of it.
DurationSubNothing(a, b) == a

\* Mutant: the elapsed time added instead of subtracted.
DurationSubAdded(a, b) == a + b

DurationSub(a, b) == a - b

\* Instant::duration_since(earlier) panics when earlier is later than self.
DurationSincePanics(later, earlier) == earlier > later

\* Mutant: the time since the clock's origin, not since `earlier`.
DurationSinceOrigin(later, earlier) == later

DurationSince(later, earlier) == later - earlier

\* ------------------------------------------------------------ constructors
\* ThrottleState (lines 59-65).
Uninitialized == [tag |-> "Uninitialized"]
Initialized(t) == [tag |-> "Initialized", previous_invocation |-> t]

\* Mutant: a constructor that stores an Initialized state stamped at
\* construction.
InitialStateStamped == Initialized(0)

\* The state both constructors store (lines 141 and 166).
InitialState == Uninitialized

\* ------------------------------------------------------------------- f32
\* An f32 is [sign, m, e]: sign * m * 2^e, with sign in {-1, 0, 1} and, unless
\* sign = 0, a 24-bit mantissa 2^23 <= m < 2^24 (a normal number).
Two23 == 8388608
Two24 == 16777216
Two30 == 1073741824

RECURSIVE Pow2(_)
Pow2(n) == IF n = 0 THEN 1 ELSE 2 * Pow2(n - 1)

F32(sign, m, e) == [sign |-> sign, m |-> m, e |-> e]
F32Zero == F32(0, 0, 0)

\* Binary long division: `steps` more bits of the quotient of r * 2^steps by
\* m, for r < m, appended to q; and the remainder.
RECURSIVE LongDiv(_, _, _, _)
LongDiv(r, m, q, steps) ==
    IF steps = 0 THEN [q |-> q, r |-> r]
    ELSE IF 2 * r >= m THEN LongDiv(2 * r - m, m, 2 * q + 1, steps - 1)
         ELSE LongDiv(2 * r, m, 2 * q, steps - 1)

\* A mantissa that rounding carried to 2^24 is renormalised.
F32Normal(m, e) == IF m = Two24 THEN F32(1, Two23, e + 1) ELSE F32(1, m, e)

\* 1.0 / x for x > 0, rounded to nearest (a tie cannot occur): the quotient
\* 2^47 / m has 24 bits, and is exact when m is a power of two.
F32Recip(x) ==
    IF x.m = Two23 THEN F32(1, Two23, -46 - x.e)
    ELSE LET d == LongDiv(Two23, x.m, 0, 24)
             q == IF 2 * d.r > x.m THEN d.q + 1 ELSE d.q
         IN  F32Normal(q, -47 - x.e)

\* y * 1000.0 for y > 0, rounded to nearest, ties to even: 1000 = 125 * 2^3,
\* and 125 * m has 30 or 31 bits, of which 24 are kept.
F32Mul1000(y) ==
    LET p == 125 * y.m
        s == IF p >= Two30 THEN 7 ELSE 6
        m == p \div Pow2(s)
        rem == p % Pow2(s)
        half == Pow2(s - 1)
        up == rem > half \/ (rem = half /\ m % 2 = 1)
    IN  F32Normal(IF up THEN m + 1 ELSE m, y.e + 3 + s)

\* The rates a caller passes to new_tps_throttle: -1.0, 0.0
\* (tests::it_works_with_no_delay_at_all_tps), 0.9 (the doc example of line
\* 152), 10.0 (tests::it_works), 20.0 and 2000.0.
TpsMinusOne == F32(-1, 8388608, -23)
TpsNine10ths == F32(1, 15099494, -24)
TpsTen == F32(1, 10485760, -20)
TpsTwenty == F32(1, 10485760, -19)
TpsTwoThousand == F32(1, 16384000, -13)
TpsRates ==
    {TpsMinusOne, F32Zero, TpsNine10ths, TpsTen, TpsTwenty, TpsTwoThousand}

\* More rates, for the construction alone: 100.0
\* (tests::it_works_with_duration_smaller_than_already_elapsed_time), 0.1, the
\* MaxUlps f32 values that follow 1000.0, the f32 values around 0.1,
\* 0.0312275551 and 0.0025543177, and a sweep of mantissas and exponents from
\* 2^-9 to 2^14.
TpsHundred == F32(1, 13107200, -17)
TpsTenth == F32(1, 13421773, -27)
TpsThousand == F32(1, 16384000, -14)
MaxUlps == 8
MaxMantissaStep == 6
MinExponent == 32
MaxExponent == 10
F32Rates ==
    TpsRates \cup {TpsHundred}
      \cup {F32(1, TpsThousand.m + j, -14) : j \in 0..MaxUlps}
      \cup {F32(1, TpsTenth.m + j - 4, -27) : j \in 0..MaxUlps}
      \cup {F32(1, 16765166 + j - 4, -29) : j \in 0..MaxUlps}
      \cup {F32(1, 10970711 + j - 4, -32) : j \in 0..MaxUlps}
      \cup {F32(1, Two23 + k * 1048576 + j, -e) :
               k \in 0..MaxMantissaStep, j \in 0..MaxUlps,
               e \in MaxExponent..MinExponent}

\* Mutant: a conversion that rounds the milliseconds to the nearest whole
\* number instead of dropping the fraction.
MillisF32Rounded(tps) ==
    IF tps.sign = 0 THEN [class |-> "inf", trunc |-> 0]
    ELSE LET z == F32Mul1000(F32Recip(tps))
             wide == z.e > 7
             trunc == IF wide THEN 0
                      ELSE IF z.e >= 0 THEN z.m * Pow2(z.e)
                      ELSE IF z.e <= -25 THEN 0
                      ELSE (z.m + Pow2(-z.e - 1)) \div Pow2(-z.e)
         IN  IF tps.sign < 0 THEN [class |-> "negative", trunc |-> trunc]
             ELSE IF wide THEN [class |-> "wide", trunc |-> 0]
             ELSE [class |-> "finite", trunc |-> trunc]

\* (1.0 / tps) * 1000.0 as an f32: its class and, when finite, its integer
\* part (the fraction is dropped by the cast).  Class "wide" is a value of
\* 2^31 or more, which the checker's integers do not hold.
MillisF32(tps) ==
    IF tps.sign = 0 THEN [class |-> "inf", trunc |-> 0]
    ELSE LET z == F32Mul1000(F32Recip(tps))
             wide == z.e > 7
             trunc == IF wide THEN 0
                      ELSE IF z.e >= 0 THEN z.m * Pow2(z.e)
                      ELSE IF z.e <= -24 THEN 0
                      ELSE z.m \div Pow2(-z.e)
         IN  IF tps.sign < 0 THEN [class |-> "negative", trunc |-> trunc]
             ELSE IF wide THEN [class |-> "wide", trunc |-> 0]
             ELSE [class |-> "finite", trunc |-> trunc]

\* `x as u64` of an f32.  In range the cast truncates.  Out of range it is
\* undefined behaviour in the toolchains the crate was written for and
\* saturating in later ones: +inf gives 0 (x86-64 code of the old toolchains)
\* or u64::MAX (saturation); a negative value gives 0 (saturation) or wraps
\* (old toolchains).  A "wide" value counts as U64_MAX.
F32AsU64(x) ==
    CASE x.class = "finite" -> {x.trunc}
      [] x.class = "wide" -> {U64_MAX}
      [] x.class = "inf" -> {0, U64_MAX}
      [] x.class = "negative" ->
            IF x.trunc = 0 THEN {0} ELSE {0, U64_MAX - x.trunc + 1}

\* The closures a caller hands to new_variable_throttle.
\*   millis_of_arg : |arg: u64, _| Duration::from_millis(arg)   (line 226)
\*   zero          : |_, _| Duration::from_millis(0)            (line 253)
\*   any           : any other closure; each call returns some duration
VariableClosures ==
    {[kind |-> "millis_of_arg"], [kind |-> "zero"], [kind |-> "any"]}

\* Throttle::new_variable_throttle (lines 137-143).
new_variable_throttle(f) ==
    [delay_calculator |-> f, state |-> InitialState]

\* Throttle::new_tps_throttle (lines 161-168): the throttles it can return.
new_tps_throttle(tps) ==
    {[delay_calculator |-> [kind |-> "const", wait_for_millis |-> w],
      state |-> InitialState] : w \in F32AsU64(MillisF32(tps))}

\* The arguments a caller passes: TArg is () for the constant closures.
ArgsOf(f) ==
    IF f.kind \in {"millis_of_arg", "any"} THEN {0, 100, 200, 300, 400} ELSE {0}

\* How often the caller calls acquire at most.
MaxCalls(f) == IF f.kind = "const" THEN MaxCallsFixed ELSE MaxCallsVariable

\* Mutant: the closure of new_tps_throttle works the interval out again on
\* every call, from the elapsed time it is given.
DelayResultsRecomputed(f, a, elapsed) ==
    CASE f.kind = "const" ->
            {IF elapsed > 0 /\ f.wait_for_millis >= elapsed
             THEN DurationFromMillis(f.wait_for_millis - elapsed)
             ELSE DurationFromMillis(f.wait_for_millis)}
      [] f.kind = "millis_of_arg" -> {DurationFromMillis(a)}
      [] f.kind = "zero" -> {DurationFromMillis(0)}
      [] f.kind = "any" -> {k * Quantum : k \in 0..MaxDelayQuanta}

\* (self.delay_calculator)(arg, elapsed): the durations the call may return.
DelayResults(f, a, elapsed) ==
    CASE f.kind = "const" -> {DurationFromMillis(f.wait_for_millis)}
      [] f.kind = "millis_of_arg" -> {DurationFromMillis(a)}
      [] f.kind = "zero" -> {DurationFromMillis(0)}
      [] f.kind = "any" -> {k * Quantum : k \in 0..MaxDelayQuanta}

\* ----------------------------------------------------------------- acquire
\* Mutant: the call takes the closure out of the throttle and leaves one that
\* asks for no delay.
CalculatorAfterCallTaken(f) == [kind |-> "zero"]

\* Line 180 calls the boxed Fn through a shared reference: the throttle holds
\* the same closure afterwards.
CalculatorAfterCall(f) == f

\* Mutant: the guard without its comparison against the elapsed time.
NeedsDelayPositiveOnly(d, elapsed) == d > DurationFromSecs(0)

\* Mutant: the guard with its comparison turned around.
NeedsDelayFlipped(d, elapsed) == d > DurationFromSecs(0) /\ elapsed > d

\* The guard of lines 182-183.
NeedsDelay(d, elapsed) == d > DurationFromSecs(0) /\ d > elapsed

\* Mutant: the guard of line 186 against one second instead of zero.
WorthSleepingOneSecond(additional) == additional > DurationFromSecs(1)

\* The guard of line 186.
WorthSleeping(additional) == additional > DurationFromSecs(0)

\* Mutant: the subtraction and the sleep without the guards around them.
SleepDecisionUnguarded(d, elapsed) ==
    IF DurationSubPanics(d, elapsed)
    THEN [kind |-> "panic", dur |-> 0]
    ELSE [kind |-> "sleep", dur |-> DurationSub(d, elapsed)]

\* Lines 182-189: what acquire does once delay_time is known.
SleepDecision(d, elapsed) ==
    IF NeedsDelay(d, elapsed)
    THEN IF DurationSubPanics(d, elapsed)
         THEN [kind |-> "panic", dur |-> 0]
         ELSE IF WorthSleeping(DurationSub(d, elapsed))
              THEN [kind |-> "sleep", dur |-> DurationSub(d, elapsed)]
              ELSE [kind |-> "skip", dur |-> DurationSub(d, elapsed)]
    ELSE [kind |-> "skip", dur |-> NONE]

\* Mutant: line 191 storing the reading of line 179 (taken before the sleep)
\* instead of reading the clock again.
StoredInstantAtEntry(clock, prev, elapsed) ==
    IF elapsed = NONE THEN clock ELSE prev + elapsed

\* The instant lines 191 and 194 store: a fresh reading of the clock, whatever
\* the instant matched from the state and the elapsed time computed from it.
StoredInstant(clock, prev, elapsed) == clock

\* Mutant: an acquire that has enforced a wait leaves the throttle
\* Uninitialized, so that the next one is free again.
StoredStateReset(clock, prev, elapsed) ==
    IF elapsed = NONE THEN Initialized(clock) ELSE Uninitialized

\* The state lines 191 and 194 assign to self.state.
StoredState(clock, prev, elapsed) ==
    Initialized(StoredInstant(clock, prev, elapsed))

\* acquire has not been called: its locals and the history are empty.
NothingCalled ==
    /\ arg = NONE
    /\ previous_invocation = NONE
    /\ time_since_previous_acquire = NONE
    /\ delay_time = NONE
    /\ additional_delay_required = NONE
    /\ sleep_start = NONE
    /\ calls = 0
    /\ first_call_start = NONE
    /\ sleep_end = NONE
    /\ slept = FALSE
    /\ sum_targets = 0
    /\ invoked = 0
    /\ free_calls = 0
    /\ stored_at = NONE
    /\ earlier_stored_at = NONE
    /\ holder = 0
    /\ last_holder = 0

\* The state after construction, whoever calls acquire.
Constructed ==
    /\ now = 0
    /\ \E t \in {new_variable_throttle(f) : f \in VariableClosures}
              \cup UNION {new_tps_throttle(r) : r \in TpsRates} :
          /\ delay_calculator = t.delay_calculator
          /\ state = t.state
          /\ built_by \in
               IF t.delay_calculator.kind = "const"
               THEN {[ctor |-> "new_tps_throttle", tps |-> r] :
                       r \in {r \in TpsRates : t \in new_tps_throttle(r)}}
               ELSE {[ctor |-> "new_variable_throttle", tps |-> F32Zero]}
    /\ pc = "idle"
    /\ NothingCalled

\* One thread owns the throttle.
Init == Constructed /\ threads = {1}

\* Mutant: a clock that may be set back (a wall clock, not Instant).
TickWallClock ==
    /\ now' \in {t \in {now + Quantum, now - Quantum} : 0 <= t /\ t <= MaxTime}
    /\ UNCHANGED <<delay_calculator, state, pc, arg, previous_invocation,
                   time_since_previous_acquire, delay_time,
                   additional_delay_required, sleep_start, built_by, calls,
                   first_call_start, sleep_end, slept, sum_targets,
                   invoked, free_calls, stored_at, earlier_stored_at, threads, holder, last_holder>>

\* Time passes (Instant::now() is monotonic).
Tick ==
    /\ now + Quantum <= MaxTime
    /\ now' = now + Quantum
    /\ UNCHANGED <<delay_calculator, state, pc, arg, previous_invocation,
                   time_since_previous_acquire, delay_time,
                   additional_delay_required, sleep_start, built_by, calls,
                   first_call_start, sleep_end, slept, sum_targets,
                   invoked, free_calls, stored_at, earlier_stored_at, threads, holder, last_holder>>

\* The caller enters acquire(a): the match on self.state (lines 175-177, 193).
Acquire ==
    /\ pc = "idle"
    /\ holder = 0
    /\ calls < MaxCalls(delay_calculator)
    /\ \E a \in ArgsOf(delay_calculator) : arg' = a
    /\ calls' = calls + 1
    /\ \E th \in threads : holder' = th
    /\ invoked' = 0
    /\ free_calls' = IF state.tag = "Initialized" THEN free_calls
                     ELSE free_calls + 1
    /\ earlier_stored_at' = stored_at
    /\ first_call_start' = IF calls = 0 THEN now ELSE first_call_start
    /\ IF state.tag = "Initialized"
       THEN /\ previous_invocation' = state.previous_invocation
            /\ pc' = "read_clock"
       ELSE /\ previous_invocation' = NONE
            /\ pc' = "first"
    /\ UNCHANGED <<now, delay_calculator, state, time_since_previous_acquire,
                   delay_time, additional_delay_required, sleep_start,
                   sleep_end, slept, built_by, sum_targets,
                   stored_at, threads, last_holder>>

\* Lines 178-186: read the clock, call the closure (arg is moved into it),
\* decide whether to sleep.
Compute ==
    /\ pc = "read_clock"
    /\ arg' = NONE
    /\ delay_calculator' = CalculatorAfterCall(delay_calculator)
    /\ IF DurationSincePanics(now, previous_invocation)
       THEN /\ pc' = "panicked"
            /\ UNCHANGED <<time_since_previous_acquire, delay_time,
                           additional_delay_required, invoked>>
       ELSE LET elapsed == DurationSince(now, previous_invocation) IN
            /\ time_since_previous_acquire' = elapsed
            /\ invoked' = invoked + 1
            /\ \E d \in DelayResults(delay_calculator, arg, elapsed) :
                 LET dec == SleepDecision(d, elapsed) IN
                 /\ delay_time' = d
                 /\ additional_delay_required' = dec.dur
                 /\ pc' = CASE dec.kind = "panic" -> "panicked"
                            [] dec.kind = "sleep" -> "call_sleep"
                            [] dec.kind = "skip" -> "store"
    /\ UNCHANGED <<now, state, previous_invocation,
                   sleep_start, built_by, calls, first_call_start, sleep_end,
                   slept, sum_targets,
                   free_calls, stored_at, earlier_stored_at, threads, holder, last_holder>>

\* Line 187: sleep(additional_delay_required) is entered.
SleepStart ==
    /\ pc = "call_sleep"
    /\ sleep_start' = now
    /\ slept' = TRUE
    /\ pc' = "sleeping"
    /\ UNCHANGED <<now, delay_calculator, state, arg, previous_invocation,
                   time_since_previous_acquire, delay_time,
                   additional_delay_required, built_by, calls,
                   first_call_start, sleep_end, sum_targets,
                   invoked, free_calls, stored_at, earlier_stored_at, threads, holder, last_holder>>

\* sleep returns, never before the requested duration has passed.
SleepEnd ==
    /\ pc = "sleeping"
    /\ now - sleep_start >= additional_delay_required
    /\ sleep_end' = now
    /\ pc' = "store"
    /\ UNCHANGED <<now, delay_calculator, state, arg, previous_invocation,
                   time_since_previous_acquire, delay_time,
                   additional_delay_required, sleep_start, built_by, calls,
                   first_call_start, slept, sum_targets,
                   invoked, free_calls, stored_at, earlier_stored_at, threads, holder, last_holder>>

\* Line 191 (Initialized branch) and line 194 (Uninitialized branch).
Store ==
    /\ pc \in {"store", "first"}
    /\ state' = StoredState(now, previous_invocation,
                            time_since_previous_acquire)
    /\ arg' = NONE
    /\ stored_at' = now
    /\ pc' = "return"
    /\ UNCHANGED <<now, delay_calculator, previous_invocation,
                   time_since_previous_acquire, delay_time,
                   additional_delay_required, sleep_start, built_by, calls,
                   first_call_start, sleep_end, slept, sum_targets,
                   invoked, free_calls, earlier_stored_at, threads, holder, last_holder>>

\* acquire returns to its caller (line 197); its locals are gone.
Return ==
    /\ pc = "return"
    /\ pc' = "idle"
    /\ sum_targets' = IF delay_time = NONE THEN sum_targets
                      ELSE sum_targets + delay_time
    /\ previous_invocation' = NONE
    /\ time_since_previous_acquire' = NONE
    /\ delay_time' = NONE
    /\ additional_delay_required' = NONE
    /\ sleep_start' = NONE
    /\ sleep_end' = NONE
    /\ slept' = FALSE
    /\ invoked' = 0
    /\ earlier_stored_at' = NONE
    /\ holder' = 0
    /\ last_holder' = holder
    /\ UNCHANGED <<now, delay_calculator, state, arg, built_by, calls,
                   first_call_start,
                   free_calls, stored_at, threads>>

\* Before construction: the caller is about to call new_tps_throttle(tps).
InitConstruct ==
    /\ now = 0
    /\ built_by \in {[ctor |-> "new_tps_throttle", tps |-> r] : r \in F32Rates}
    /\ delay_calculator = [kind |-> "unbuilt"]
    /\ state = [tag |-> "unbuilt"]
    /\ pc = "construct"
    /\ NothingCalled
    /\ threads = {1}

\* Throttle::new_tps_throttle(tps) returns (lines 161-168).
Construct ==
    /\ pc = "construct"
    /\ \E t \in new_tps_throttle(built_by.tps) :
          /\ delay_calculator' = t.delay_calculator
          /\ state' = t.state
    /\ pc' = "idle"
    /\ UNCHANGED <<now, arg, previous_invocation,
                   time_since_previous_acquire, delay_time,
                   additional_delay_required, sleep_start, built_by, calls,
                   first_call_start, sleep_end, slept, sum_targets, invoked,
                   free_calls, stored_at, earlier_stored_at, threads, holder,
                   last_holder>>

Next ==
    \/ Tick
    \/ Acquire
    \/ Compute
    \/ SleepStart
    \/ SleepEnd
    \/ Store
    \/ Return

Spec == Init /\ [][Next]_vars

\* A sleep that lasts exactly as long as asked: the clock moves to the instant
\* the sleep is due, and at no other time.
TickExact ==
    /\ pc = "sleeping"
    /\ now - sleep_start < additional_delay_required
    /\ additional_delay_required <= MaxTime - sleep_start
    /\ now' = sleep_start + additional_delay_required
    /\ UNCHANGED <<delay_calculator, state, pc, arg, previous_invocation,
                   time_since_previous_acquire, delay_time,
                   additional_delay_required, sleep_start, built_by, calls,
                   first_call_start, sleep_end, slept, sum_targets, invoked,
                   free_calls, stored_at, earlier_stored_at, threads, holder,
                   last_holder>>

\* Back-to-back acquires with exact sleeps.
NextExact ==
    \/ TickExact
    \/ Acquire
    \/ Compute
    \/ SleepStart
    \/ SleepEnd
    \/ Store
    \/ Return
SpecExact == Init /\ [][NextExact]_vars

\* A step of the running call or of the clock. The calling thread keeps
\* running and time keeps passing; the caller need not call acquire again.
Progress ==
    \/ Tick
    \/ Compute
    \/ SleepStart
    \/ SleepEnd
    \/ Store
    \/ Return

\* The throttles whose delay does not come from the argument: the fixed-rate
\* ones and the closures that ignore `arg`.
InitLive == Init /\ delay_calculator.kind # "millis_of_arg"
SpecLive == InitLive /\ [][Next]_vars /\ WF_vars(Progress)

\* Two threads share the throttle behind a mutex that each holds for the whole
\* of its acquire call.
InitShared == Constructed /\ threads = {1, 2}
SpecShared == InitShared /\ [][Next]_vars

\* The construction of a fixed-rate throttle, for each rate of F32Rates.
NextConstruct == Construct
SpecConstruct == InitConstruct /\ [][NextConstruct]_vars

\* ------------------------------------------------------------------ claims
\* The throttle was built by new_tps_throttle.
FixedRate == built_by.ctor = "new_tps_throttle"

\* The pcs at which the caller has asked for a sleep.
InSleep == pc \in {"call_sleep", "sleeping"}

\* C1: in every non-first acquire, from the store until the return, at least
\* delay_time has passed since the previous_invocation the call matched.
C1_MinimumInterval ==
    (pc = "return" /\ delay_time # NONE)
        => now - previous_invocation >= delay_time

\* A non-first acquire that slept, with time passing before the clock was
\* read, between the decision and the sleep, and after the sleep was due.
C1_Witness ==
    /\ pc = "return"
    /\ slept
    /\ time_since_previous_acquire > 0
    /\ sleep_start > previous_invocation + time_since_previous_acquire
    /\ sleep_end - sleep_start > additional_delay_required

\* C2: the first acquire goes to the Uninitialized branch, never calls the
\* closure or sleep, and stores Initialized with the current clock reading.
C2_FirstIsFree ==
    [][/\ (calls = 0 /\ calls' = 1) => pc' = "first"
       /\ calls' = 1 => (~slept' /\ delay_time' = NONE
                           /\ pc' \in {"first", "return", "idle"})
       /\ (pc = "first" /\ pc' # "first")
            => (pc' = "return" /\ state' = Initialized(now'))]_vars

\* The first acquire has returned on a throttle whose closure asks for the
\* longest delay there is.
C2_Witness ==
    /\ calls = 1
    /\ pc = "return"
    /\ state.tag = "Initialized"
    /\ state.previous_invocation > 0
    /\ delay_calculator.kind = "const"
    /\ delay_calculator.wait_for_millis = U64_MAX

\* C3: on a fixed-rate throttle with interval D > 0, when the n-th acquire has
\* stored its instant (and until the next one begins), at least (n - 1) * D
\* has passed since the first acquire began.
C3_FixedRateTotal ==
    (/\ FixedRate
     /\ delay_calculator.wait_for_millis > 0
     /\ calls >= 1
     /\ pc \in {"return", "idle"})
        => (now - first_call_start) \div delay_calculator.wait_for_millis
              >= calls - 1

\* Eleven acquires at 10 TPS, the first of them begun after some time.
C3_Witness ==
    /\ FixedRate
    /\ built_by.tps = TpsTen
    /\ delay_calculator.wait_for_millis = 100
    /\ calls = 11
    /\ pc = "return"
    /\ first_call_start > 0
    /\ now - first_call_start >= 1000

\* C4: on a throttle whose closure returns its argument in milliseconds, the
\* time passed since the first acquire began is at least the sum of the
\* arguments of all acquires but the first.
C4_VariableTotal ==
    (delay_calculator.kind = "millis_of_arg" /\ calls >= 1)
        => /\ pc = "idle" => now - first_call_start >= sum_targets
           /\ (pc = "return" /\ delay_time # NONE)
                => now - first_call_start >= sum_targets + delay_time

\* Five acquires whose arguments after the first add up to 1000 ms.
C4_Witness ==
    /\ delay_calculator.kind = "millis_of_arg"
    /\ calls = 5
    /\ pc = "return"
    /\ delay_time = 400
    /\ sum_targets = 600
    /\ now - first_call_start >= 1000

\* C5: a throttle built by new_tps_throttle with a rate <= 0 never asks for a
\* sleep and never panics.
C5_NonPositiveRateNeverSleeps ==
    (FixedRate /\ built_by.tps.sign <= 0)
        => (~slept /\ ~InSleep /\ pc # "panicked")

\* C6: a throttle whose closure always returns zero never asks for a sleep and
\* never panics.
C6_ZeroNeverSleeps ==
    (\/ delay_calculator.kind = "zero"
     \/ (delay_calculator.kind = "const"
           /\ delay_calculator.wait_for_millis = 0))
        => (~slept /\ ~InSleep /\ pc # "panicked")

\* The zero closure, called right after the previous acquire stored.
C6_Witness ==
    /\ delay_calculator.kind = "zero"
    /\ calls = MaxCallsVariable
    /\ pc = "return"
    /\ delay_time = 0
    /\ time_since_previous_acquire = 0

\* C7: an acquire that finds the elapsed time to be at least the closure's
\* result does not sleep and does not panic.
C7_AlreadyWaited ==
    (delay_time # NONE /\ time_since_previous_acquire >= delay_time)
        => (~slept /\ ~InSleep /\ pc # "panicked")

\* The caller waited longer than the positive interval of a fixed-rate
\* throttle.
C7_Witness ==
    /\ FixedRate
    /\ pc = "return"
    /\ delay_time > 0
    /\ time_since_previous_acquire > delay_time
    /\ ~slept

\* C8: the store of every acquire writes the clock reading of that moment,
\* which is not before the end of its sleep nor before its own first reading;
\* nothing else writes the state; and the elapsed time an acquire computes is its clock reading minus the
\* instant the state holds, the one the previous acquire stored.
C8_StoreAfterBlocking ==
    [][/\ (pc \in {"store", "first"} /\ pc' = "return")
            => /\ state' = Initialized(now)
               /\ slept => state'.previous_invocation >= sleep_end
               /\ time_since_previous_acquire # NONE
                    => state'.previous_invocation
                         >= previous_invocation + time_since_previous_acquire
       /\ state' # state => (pc \in {"store", "first"} /\ pc' = "return")
       /\ (pc = "read_clock" /\ pc' \in {"call_sleep", "store"})
            => /\ state.tag = "Initialized"
               /\ time_since_previous_acquire'
                    = now - state.previous_invocation]_vars

\* An acquire that slept has stored, later than its sleep ended.
C8_Witness ==
    /\ pc = "return"
    /\ slept
    /\ calls >= 3
    /\ state.previous_invocation > sleep_end
    /\ sleep_end > sleep_start

\* C9: acquire never panics.
C9_NoPanic == pc # "panicked"

\* The subtraction of line 184 has been done after some time had elapsed.
C9_Witness ==
    /\ pc = "call_sleep"
    /\ time_since_previous_acquire > 0
    /\ additional_delay_required = delay_time - time_since_previous_acquire

\* C10: no step lowers the stored previous_invocation.
C10_Monotonic ==
    [][(state.tag = "Initialized" /\ state'.tag = "Initialized")
          => state'.previous_invocation >= state.previous_invocation]_vars

\* A later acquire has stored a strictly later instant than the one it matched.
C10_Witness ==
    /\ pc = "return"
    /\ previous_invocation # NONE
    /\ state.previous_invocation > previous_invocation

\* C11: the state is Uninitialized exactly until the first acquire stores:
\* before any call and inside the first call up to its store.  After that it
\* is Initialized in every state of every later call.
C11_StateMachine ==
    (state.tag = "Uninitialized") <=> (calls = 0 \/ (calls = 1 /\ pc = "first"))

\* A fixed-rate throttle after as many acquires as the model makes, some of
\* which slept.
C11_Witness ==
    /\ calls = MaxCallsFixed
    /\ pc = "idle"
    /\ state.tag = "Initialized"
    /\ sum_targets > 0

\* C12: a throttle built by new_tps_throttle is the throttle that
\* new_variable_throttle builds from a closure returning the constant
\* interval: the same closure and the same state at construction; and every
\* call of the closure returns that interval, the one computed from the rate
\* at construction, whatever the elapsed time.
C12_FixedIsConstantClosure ==
    FixedRate =>
        /\ delay_calculator.kind = "const"
        /\ delay_calculator.wait_for_millis \in F32AsU64(MillisF32(built_by.tps))
        /\ calls = 0 =>
              [delay_calculator |-> delay_calculator, state |-> state]
                 = new_variable_throttle(
                      [kind |-> "const",
                       wait_for_millis |-> delay_calculator.wait_for_millis])
        /\ delay_time # NONE =>
              delay_time = DurationFromMillis(delay_calculator.wait_for_millis)

\* A later call on a 20 TPS throttle, made after more than the interval had
\* elapsed, was still told the interval.
C12_Witness ==
    /\ FixedRate
    /\ built_by.tps = TpsTwenty
    /\ calls >= 3
    /\ pc = "return"
    /\ time_since_previous_acquire > delay_calculator.wait_for_millis
    /\ delay_time = 50

\* 1000 / tps for tps > 0, exactly: its integer part q and the remainder r of
\* the division by tps.m, so that 1000 / tps = q + r / tps.m.
ExactMillis(tps) ==
    IF tps.e > 3 THEN [q |-> 0, r |-> 1] ELSE LongDiv(125, tps.m, 0, 3 - tps.e)

\* tps > 1000.0.
Above1000(tps) ==
    tps.sign > 0 /\ (tps.e > -14 \/ (tps.e = -14 /\ tps.m > TpsThousand.m))

\* A bound of at least a * b / 2^22, within the checker's integers.
Ulps(a, b) == ((a \div 2048) + 1) * ((b \div 2048) + 1)

\* A fixed-rate throttle has been built from a positive rate.
BuiltPositive == pc = "idle" /\ FixedRate /\ built_by.tps.sign > 0

C14_SleepIffShort ==
    (delay_time # NONE /\ pc # "panicked") =>
        /\ (InSleep \/ slept) <=> delay_time > time_since_previous_acquire
        /\ (InSleep \/ slept) =>
              /\ additional_delay_required > 0
              /\ time_since_previous_acquire + additional_delay_required
                   = delay_time

\* A sleep for part of the delay, the rest having elapsed before the call.
C14_Witness ==
    /\ pc = "sleeping"
    /\ time_since_previous_acquire > 0
    /\ additional_delay_required > 0
    /\ additional_delay_required < delay_time

\* C15: with exact sleeps and no time passing otherwise, once the n-th acquire
\* on a fixed-rate throttle with interval D > 0 has stored, exactly (n - 1) * D
\* has passed since the first began.
C15_NoOverDelay ==
    (FixedRate /\ calls >= 1 /\ pc \in {"return", "idle"}) =>
        IF delay_calculator.wait_for_millis = 0
        THEN now = first_call_start
        ELSE /\ (now - first_call_start) % delay_calculator.wait_for_millis = 0
             /\ (now - first_call_start) \div delay_calculator.wait_for_millis
                   = calls - 1

\* Eleven acquires at 10 TPS have taken one second.
C15_Witness ==
    /\ FixedRate
    /\ built_by.tps = TpsTen
    /\ calls = 11
    /\ pc = "idle"
    /\ now - first_call_start = 1000

\* C16: no step of acquire changes the closure the throttle holds, and the
\* state is written by the store alone.
C16_Frame ==
    [][/\ delay_calculator' = delay_calculator
       /\ state' # state => (pc \in {"store", "first"} /\ pc' = "return")]_vars

\* An acquire has called the closure and stored.
C16_Witness ==
    /\ pc = "return"
    /\ invoked = 1
    /\ calls >= 3
    /\ delay_calculator.kind = "millis_of_arg"
    /\ delay_time > 0

\* C17: the first acquire never calls the closure; every later acquire calls
\* it once, before it sleeps or stores, with its own argument and with the
\* clock reading of that moment minus the instant the state holds.
C17_ClosureCalls ==
    [][/\ calls' = 1 => invoked' = 0
       /\ invoked' <= 1
       /\ (calls' >= 2 /\ pc' \in {"call_sleep", "sleeping", "store", "return"})
            => invoked' = 1
       /\ invoked' > invoked =>
            /\ pc = "read_clock"
            /\ ~slept
            /\ arg \in ArgsOf(delay_calculator)
            /\ time_since_previous_acquire' = now - state.previous_invocation
            /\ delay_calculator.kind = "millis_of_arg" => delay_time' = arg
            /\ delay_calculator.kind = "const"
                 => delay_time' = delay_calculator.wait_for_millis]_vars

\* The closure was called with argument 300 after 100 ms had elapsed.
C17_Witness ==
    /\ pc = "call_sleep"
    /\ invoked = 1
    /\ delay_calculator.kind = "millis_of_arg"
    /\ delay_time = 300
    /\ time_since_previous_acquire = 100

\* The last instant the clock of the model reaches.
LastInstant == (MaxTime \div Quantum) * Quantum

\* C18: the sleep asked for is never longer than delay_time; and an acquire
\* whose sleep is due before the clock of the model stops returns.
C18_Terminates ==
    /\ [](InSleep => (/\ additional_delay_required <= delay_time
                      /\ additional_delay_required
                           = delay_time - time_since_previous_acquire))
    /\ (pc \in {"read_clock", "call_sleep"})
          ~> (pc \in {"sleeping", "store"})
    /\ (\/ pc \in {"first", "store", "return"}
        \/ (/\ pc = "sleeping"
            /\ additional_delay_required <= LastInstant - sleep_start))
          ~> (pc = "idle")

\* An acquire sleeps for less than its delay_time and can still wake.
C18_Witness ==
    /\ pc = "sleeping"
    /\ additional_delay_required < delay_time
    /\ additional_delay_required <= LastInstant - sleep_start
    /\ now < sleep_start + additional_delay_required

\* C19: with the mutex held for the whole of each call, one acquire is free,
\* the first; and every other one, whichever thread makes it, is past its store
\* only when delay_time has passed since the store of the acquire before it.
C19_SharedUnderMutex ==
    /\ (holder = 0) <=> (pc = "idle")
    /\ calls >= 1 => free_calls = 1
    /\ pc = "first" => calls = 1
    /\ (pc = "return" /\ delay_time # NONE)
          => now - earlier_stored_at >= delay_time

\* Thread 2 has slept in an acquire that followed one of thread 1.
C19_Witness ==
    /\ pc = "return"
    /\ holder = 2
    /\ last_holder = 1
    /\ calls >= 3
    /\ slept
    /\ time_since_previous_acquire > 0

====
